---- MODULE Spec2Model ----
(***************************************************************************)
(* Model of the crinita static-site generator: the Sites assembler         *)
(* (src/crinita/sites.py), the pagination engine EntityList                *)
(* (src/crinita/entity_list.py), Tag (src/crinita/tag.py) and the URL      *)
(* derivation rule Utils.generate_file_path (src/crinita/utils.py).        *)
(*                                                                         *)
(* Python values are represented as follows:                               *)
(*   - None is the string None (a value no alias or URL of the model       *)
(*     takes);                                                             *)
(*   - str is a TLA+ string, + is \o and str(n) is ToString(n);            *)
(*   - list is a sequence;                                                 *)
(*   - dict is the sequence of its items [key, val] in insertion order     *)
(*     (Python dicts iterate in insertion order);                          *)
(*   - an object is a record; the field id stands for object identity      *)
(*     (the position of the entity in the list given to Sites).            *)
(*   - the output directory is the function files from the names of its    *)
(*     files to their content; a written page is the record of what it     *)
(*     shows, a file of an earlier build has the content "old".            *)
(***************************************************************************)
EXTENDS Integers, Sequences, FiniteSets, TLC

VARIABLES
    \* ---- Config (class attributes read by the code) ----
    pagination_max_item_per_page,
    blog_url,               \* Config.blog_url (None: no dedicated blog)
    dataset_url,            \* Config.dataset_url (None: no catalogue)
    css_style_path,         \* name of the CSS file to copy, or None
    resources_path,         \* name of the resources directory, or None
    \* ---- arguments of Sites.__init__ ----
    list_of_entities,       \* the flat entity list handed to the constructor
    check_url_unique,
    \* ---- Sites instance ----
    phase,                  \* "new" | "constructed" | "failed"
    error,                  \* message of the last exception raised, or None
    list_of_articles,       \* self._list_of_articles
    list_of_datasets,       \* self._list_of_datasets
    list_of_pages,          \* self._list_of_pages
    tag_to_articles,        \* self._tag_to_articles
    tag_to_articles_incidence,
    tag_to_datasets,        \* self._tag_to_datasets
    tag_to_datasets_incidence,
    site_map_urls,          \* self._site_map_urls
    homepage,               \* self._homepage
    homepage_cache,         \* the lru_cache of the homepage getter
    \* ---- output directory handed to Sites.generate_pages ----
    dir_exists,             \* the directory exists
    files,                  \* file name -> content of the files in it
    run_log,                \* writes and sitemap appends of the last
                            \* generate_pages call, in program order
    \* ---- EntityList instance ----
    el,                     \* the listing object (NoListing before __init__)
    ret                     \* value returned by the last method call

sitesVars == <<list_of_entities, check_url_unique, phase, error,
               list_of_articles, list_of_datasets, list_of_pages,
               tag_to_articles, tag_to_articles_incidence,
               tag_to_datasets, tag_to_datasets_incidence,
               site_map_urls, homepage, homepage_cache>>

configVars == <<pagination_max_item_per_page, blog_url, dataset_url,
                css_style_path, resources_path>>

outputVars == <<dir_exists, files, run_log>>

vars == <<configVars, sitesVars, outputVars, el, ret>>

-----------------------------------------------------------------------------
(* Bounds of the model *)

MaxEntities == 3     \* longest entity list given to Sites (URL specification)
MaxTagged   == 2     \* longest entity list in the tag-index specification
MaxTagUses  == 3     \* total number of tag occurrences over all entities
MaxDate     == 2     \* dates are 1..MaxDate
MaxListLen  == 7     \* longest list handed to an EntityList
MaxPageSize == 3     \* largest Config.pagination_max_item_per_page
MaxHomeEntities == 2 \* longest entity list in the homepage specification
MaxGenEntities == 2  \* longest entity list in the generation specification
MaxSiteMapLen == 4   \* generate_pages is not called with a longer sitemap list
MaxTagPageUses == 2  \* most tag occurrences in the tag-listing specification

-----------------------------------------------------------------------------
(* Python values *)

None == "<None>"

\* Config defaults
pagination_prefix   == "-"
pagination_suffix   == "page-"
site_home_file_name == "index.html"
site_home_url       == "index.html"
site_file_suffix    == ".html"
tag_url_prefix      == "tag-"
site_map_url_prefix == ""

\* Messages of the exceptions the code raises
ErrNotUnique    == "ValueError: Not all URLs are unique!"
ErrTwoHomepages == "ValueError: there are (at least) two homepages"

Range(s) == {s[i] : i \in 1..Len(s)}

SeqsUpTo(S, n) == UNION {[1..k -> S] : k \in 0..n}

\* The content of a file: what wrote it and what it shows (strings)
Content(kind, data) == [kind |-> kind, data |-> data]

\* An empty directory
NoFiles == [name \in {} |-> Content("old", <<>>)]

-----------------------------------------------------------------------------
(* Utils.generate_file_path *)

generate_file_path(url_root, to_html_file) ==
    IF url_root = None
    THEN (IF to_html_file THEN site_home_file_name ELSE site_home_url)
    ELSE url_root \o site_file_suffix

-----------------------------------------------------------------------------
(* Tag: a dataclass with fields name and url_alias.  __hash__ is           *)
(* overridden to hash url_alias; __eq__ is the one @dataclass generates,   *)
(* which compares the field tuples (name, url_alias).  A dict finds a key  *)
(* when the hashes agree and __eq__ holds.                                 *)

Tag(name, url_alias) == [name |-> name, url_alias |-> url_alias]

TagHash(t) == t.url_alias

TagEq(t1, t2) == t1.name = t2.name /\ t1.url_alias = t2.url_alias

SameKey(t1, t2) == TagHash(t1) = TagHash(t2) /\ TagEq(t1, t2)

url_alias_with_prefix(t) == tag_url_prefix \o t.url_alias

-----------------------------------------------------------------------------
(* dict as item sequence *)

HasKey(d, k) == \E i \in 1..Len(d) : SameKey(d[i].key, k)

KeyIndex(d, k) == CHOOSE i \in 1..Len(d) : SameKey(d[i].key, k)

Get(d, k) == d[KeyIndex(d, k)].val

\* d[k] = v : replaces the value of an existing key in place, or inserts
\* the new key at the end
Put(d, k, v) ==
    IF HasKey(d, k)
    THEN [d EXCEPT ![KeyIndex(d, k)].val = v]
    ELSE Append(d, [key |-> k, val |-> v])

\* defaultdict lookup: a missing key yields the default
GetDefault(d, k, default) == IF HasKey(d, k) THEN Get(d, k) ELSE default

-----------------------------------------------------------------------------
(* sorted(seq, key=..., reverse=...) *)

\* The stable sorting permutation of a sequence of integer keys: position i
\* of the result is the index of the element that sorts i-th.  An element is
\* inserted behind every element already placed whose key does not sort
\* after its own, so equal keys keep their input order (also under
\* reverse=True, which Python implements so as to keep stability).
RECURSIVE InsertIndex(_, _, _, _)
InsertIndex(perm, i, keys, reverse) ==
    IF perm = <<>> THEN <<i>>
    ELSE IF (IF reverse THEN keys[Head(perm)] >= keys[i]
                        ELSE keys[Head(perm)] <= keys[i])
         THEN <<Head(perm)>> \o InsertIndex(Tail(perm), i, keys, reverse)
         ELSE <<i>> \o perm

RECURSIVE SortPerm(_, _, _)
SortPerm(keys, n, reverse) ==
    IF n = 0 THEN <<>>
    ELSE InsertIndex(SortPerm(keys, n - 1, reverse), n, keys, reverse)

\* sorted(s, key=..., reverse=reverse), keys[i] being the key of s[i]
sorted(s, keys, reverse) ==
    LET perm == SortPerm(keys, Len(s), reverse)
    IN  [i \in 1..Len(s) |-> s[perm[i]]]

\* key=lambda x: x.date
DateKey(s) == [i \in 1..Len(s) |-> s[i].date]

\* key=lambda item: item[1]
ValKey(s) == [i \in 1..Len(s) |-> s[i].val]

\* key=lambda x: x.menu_position if x.menu_position else -1
\* (None and 0 are both falsy)
\* An Optional[int] is <<>> for None and <<n>> for the integer n.
NoPosition == <<>>

MenuKey(s) ==
    [i \in 1..Len(s) |->
        IF s[i].menu_position = NoPosition \/ s[i].menu_position = <<0>>
        THEN -1
        ELSE s[i].menu_position[1]]

-----------------------------------------------------------------------------
(* Entities.  Page, Article and Dataset are distinct classes (none is a    *)
(* subclass of another), so isinstance selects on the kind.                *)

Entity(id, kind, url_alias, date, tags, menu_position) ==
    [id |-> id, kind |-> kind, url_alias |-> url_alias, date |-> date,
     tags |-> tags, menu_position |-> menu_position]

NoEntity == [kind |-> "None"]

IsArticle(ent) == ent.kind = "Article"
IsDataset(ent) == ent.kind = "Dataset"
IsPage(ent)    == ent.kind = "Page"

-----------------------------------------------------------------------------
(* EntityList (the pagination engine) *)

NoListing == [kind |-> "None"]

\* math.ceil(n / p) for n >= 0, p >= 1
Ceil(n, p) == (n + p - 1) \div p

Min(a, b) == IF a <= b THEN a ELSE b

\* _set_url_list with the pagination prefix also put in front of the
\* pagination URLs of a listing without alias
SetUrlListAlwaysPrefix(url_alias, entities, page_size) ==
    LET number_of_pages == Ceil(Len(entities), page_size)
        root_of_pagination_url ==
            (IF url_alias # None THEN url_alias ELSE "")
            \o pagination_prefix \o pagination_suffix
    IN  [url_list |-> IF number_of_pages <= 1
                      THEN <<url_alias>>  \* range(1, number_of_pages) is empty
                      ELSE <<url_alias>> \o
                           [page_nr \in 1..(number_of_pages - 1) |->
                               root_of_pagination_url \o ToString(page_nr)],
         number_of_pages |-> number_of_pages]

\* EntityList._set_url_list
SetUrlList(url_alias, entities, page_size) ==
    LET number_of_pages == Ceil(Len(entities), page_size)
        root_of_pagination_url ==
            IF url_alias # None
            THEN url_alias \o pagination_prefix \o pagination_suffix
            ELSE pagination_suffix
    IN  [url_list |-> IF number_of_pages <= 1
                      THEN <<url_alias>>  \* range(1, number_of_pages) is empty
                      ELSE <<url_alias>> \o
                           [page_nr \in 1..(number_of_pages - 1) |->
                               root_of_pagination_url \o ToString(page_nr)],
         number_of_pages |-> number_of_pages]

\* EntityList.__init__ (list_type is ListOfArticles or ListOfDatasets)
EntityList(list_type, title, entities, url_alias, page_size) ==
    LET set == SetUrlList(url_alias, entities, page_size)
    IN  [kind |-> list_type, title |-> title, url_alias |-> url_alias,
         list_of_entities |-> entities,
         url_list |-> set.url_list,
         number_of_pages |-> set.number_of_pages]

\* generate_entities with the slice ending one element early
generate_entities_short(listing, page_position, page_size) ==
    LET n == Len(listing.list_of_entities)
        selection == SubSeq(listing.list_of_entities,
                            page_position * page_size + 1,
                            Min((page_position + 1) * page_size - 1, n))
    IN  [op |-> "generate_entities",
         entities |-> selection,
         entities_length |-> Len(selection),
         page_position |-> page_position]

\* EntityList.generate_entities: the Python slice
\* list_of_entities[k * p : min((k + 1) * p, len)]
generate_entities(listing, page_position, page_size) ==
    LET n == Len(listing.list_of_entities)
        selection == SubSeq(listing.list_of_entities,
                            page_position * page_size + 1,
                            Min((page_position + 1) * page_size, n))
    IN  [op |-> "generate_entities",
         entities |-> selection,
         entities_length |-> Len(selection),
         page_position |-> page_position]

\* generate_pagination_nav_bar with the two directions exchanged
generate_pagination_nav_bar_swapped(listing, page_position) ==
    LET link_newer == IF page_position > 0
                      THEN generate_file_path(
                               listing.url_list[page_position - 1 + 1], FALSE)
                      ELSE None
        link_older == IF page_position < Len(listing.url_list) - 1
                      THEN generate_file_path(
                               listing.url_list[page_position + 1 + 1], FALSE)
                      ELSE None
    IN  [op |-> "generate_pagination_nav_bar",
         page_position |-> page_position,
         navigation_previous |-> link_newer,
         navigation_next |-> link_older]

\* EntityList.generate_pagination_nav_bar (url_list is indexed from 0 in
\* the code and from 1 here)
generate_pagination_nav_bar(listing, page_position) ==
    LET link_newer == IF page_position > 0
                      THEN generate_file_path(
                               listing.url_list[page_position - 1 + 1], FALSE)
                      ELSE None
        link_older == IF page_position < Len(listing.url_list) - 1
                      THEN generate_file_path(
                               listing.url_list[page_position + 1 + 1], FALSE)
                      ELSE None
    IN  [op |-> "generate_pagination_nav_bar",
         page_position |-> page_position,
         navigation_previous |-> link_older,
         navigation_next |-> link_newer]

-----------------------------------------------------------------------------
(* Sites._process_entity_list *)

\* The tag loop handling only the first tag of an entity
HandleFirstTagOnly(acc, entity, tags) ==
    IF tags = <<>> THEN acc
    ELSE LET tag == Head(tags)
         IN  [tag_to_entity |->
                  Put(acc.tag_to_entity, tag,
                      Append(GetDefault(acc.tag_to_entity, tag, <<>>),
                             entity)),
              tag_to_entity_incidence |->
                  Put(acc.tag_to_entity_incidence, tag,
                      GetDefault(acc.tag_to_entity_incidence, tag, 0) + 1)]

\* for tag in entity.tags: append the entity, increment the incidence
RECURSIVE HandleTags(_, _, _)
HandleTags(acc, entity, tags) ==
    IF tags = <<>> THEN acc
    ELSE LET tag == Head(tags)
         IN  HandleTags(
                 [tag_to_entity |->
                      Put(acc.tag_to_entity, tag,
                          Append(GetDefault(acc.tag_to_entity, tag, <<>>),
                                 entity)),
                  tag_to_entity_incidence |->
                      Put(acc.tag_to_entity_incidence, tag,
                          GetDefault(acc.tag_to_entity_incidence, tag, 0) + 1)],
                 entity, Tail(tags))

\* for entity in list_of_entities
RECURSIVE ScanEntities(_, _)
ScanEntities(acc, entities) ==
    IF entities = <<>> THEN acc
    ELSE ScanEntities(HandleTags(acc, Head(entities), Head(entities).tags),
                      Tail(entities))

\* Sort every per-tag list by date, newest first
SortTagLists(tag_to_entity) ==
    [i \in 1..Len(tag_to_entity) |->
        [key |-> tag_to_entity[i].key,
         val |-> sorted(tag_to_entity[i].val,
                        DateKey(tag_to_entity[i].val), TRUE)]]

\* The incidence dict sorted ascending and then reversed: biggest first, but
\* equal counts in the reverse of their first-seen order
SortIncidenceReversed(tag_to_entity_incidence) ==
    LET asc == sorted(tag_to_entity_incidence,
                      ValKey(tag_to_entity_incidence), FALSE)
    IN  [i \in 1..Len(asc) |-> asc[Len(asc) + 1 - i]]

\* Sort the incidence dict by value, biggest first
SortIncidence(tag_to_entity_incidence) ==
    sorted(tag_to_entity_incidence, ValKey(tag_to_entity_incidence),
           TRUE)

process_entity_list(entities) ==
    LET acc == ScanEntities([tag_to_entity |-> <<>>,
                             tag_to_entity_incidence |-> <<>>], entities)
    IN  [tag_to_entity |-> SortTagLists(acc.tag_to_entity),
         tag_to_entity_incidence |->
             SortIncidence(acc.tag_to_entity_incidence),
         all_urls |-> [i \in 1..Len(entities) |-> entities[i].url_alias]]

-----------------------------------------------------------------------------
(* Sites.__init__ *)

\* SortArticles as the ascending sort turned around
\* (sorted(..., key=lambda x: x.date)[::-1]), which turns equal dates around
SortArticlesTurned(entities) ==
    LET list_of_articles_arg == SelectSeq(entities, IsArticle)
        ascending == sorted(list_of_articles_arg,
                            DateKey(list_of_articles_arg), FALSE)
    IN  [i \in 1..Len(ascending) |-> ascending[Len(ascending) + 1 - i]]

SortArticles(entities) ==
    LET list_of_articles_arg == SelectSeq(entities, IsArticle)
    IN  sorted(list_of_articles_arg, DateKey(list_of_articles_arg), TRUE)

SortDatasets(entities) ==
    LET list_of_datasets_arg == SelectSeq(entities, IsDataset)
    IN  sorted(list_of_datasets_arg, DateKey(list_of_datasets_arg), TRUE)

SortPages(entities) ==
    LET list_of_pages_arg == SelectSeq(entities, IsPage)
    IN  sorted(list_of_pages_arg, MenuKey(list_of_pages_arg), FALSE)

\* The sanity check without the pages
UrlCheckWithoutPages(articles_urls, dataset_urls, pages) ==
    [all_urls |-> Range(articles_urls) \cup Range(dataset_urls),
     number_of_elements |-> Len(articles_urls) + Len(dataset_urls)]

\* The set all_urls and the counter number_of_elements of the sanity check
UrlCheck(articles_urls, dataset_urls, pages) ==
    [all_urls |-> Range(articles_urls) \cup Range(dataset_urls)
                  \cup {pages[i].url_alias : i \in 1..Len(pages)},
     number_of_elements |-> Len(articles_urls) + Len(dataset_urls)
                            + Len(pages)]

Construct ==
    /\ phase = "new"
    /\ LET articles == SortArticles(list_of_entities)
           datasets == SortDatasets(list_of_entities)
           pages    == SortPages(list_of_entities)
           pa == process_entity_list(articles)
           pd == process_entity_list(datasets)
           chk == UrlCheck(pa.all_urls, pd.all_urls, pages)
       IN  IF check_url_unique
              /\ Cardinality(chk.all_urls) # chk.number_of_elements
           THEN \* raise ValueError("Not all URLs are unique!")
                /\ phase' = "failed"
                /\ error' = ErrNotUnique
                /\ UNCHANGED <<list_of_articles, list_of_datasets,
                               list_of_pages, tag_to_articles,
                               tag_to_articles_incidence, tag_to_datasets,
                               tag_to_datasets_incidence, site_map_urls,
                               homepage, homepage_cache>>
           ELSE /\ phase' = "constructed"
                /\ list_of_articles' = articles
                /\ list_of_datasets' = datasets
                /\ list_of_pages' = pages
                /\ tag_to_articles' = pa.tag_to_entity
                /\ tag_to_articles_incidence' = pa.tag_to_entity_incidence
                /\ tag_to_datasets' = pd.tag_to_entity
                /\ tag_to_datasets_incidence' = pd.tag_to_entity_incidence
                /\ site_map_urls' = <<>>
                /\ homepage' = NoEntity
                /\ UNCHANGED <<error, homepage_cache>>
    /\ UNCHANGED <<configVars, outputVars, list_of_entities,
                   check_url_unique, el, ret>>

-----------------------------------------------------------------------------
(* Sites.homepage (getter), Sites.generate_blog, Sites.generate_datasets *)

generate_blog(title, url_alias) ==
    EntityList("ListOfArticles", title, list_of_articles, url_alias,
               pagination_max_item_per_page)

generate_datasets(title, url_alias) ==
    EntityList("ListOfDatasets", title, list_of_datasets, url_alias,
               pagination_max_item_per_page)

\* The entities the getter scans, in scan order
HomepageScan == list_of_pages \o list_of_articles \o list_of_datasets

IsHomepageCandidate(ent) == ent.url_alias = None

\* The scan that, finding no entity without alias, picks the listing by the
\* configuration: the articles with a blog URL, else the datasets
ResolveHomepageByConfig(scan) ==
    LET found == SelectSeq(scan, IsHomepageCandidate)
    IN  IF Len(found) >= 2
        THEN [error |-> ErrTwoHomepages, value |-> NoEntity]
        ELSE [error |-> None,
              value |-> IF Len(found) = 1 THEN found[1]
                        ELSE IF blog_url # None
                        THEN generate_blog(None, None)
                        ELSE generate_datasets(None, None)]

\* The scan that keeps the first entity without alias and never raises
ResolveHomepageFirstWins(scan) ==
    LET found == SelectSeq(scan, IsHomepageCandidate)
    IN  [error |-> None,
         value |-> IF Len(found) >= 1 THEN found[1]
                   ELSE generate_blog(None, None)]

\* The body of the getter once self._homepage is found empty: the scan for
\* the entities without alias, the error on the second one, the listing of
\* all articles when there is none
ResolveHomepage(scan) ==
    LET found == SelectSeq(scan, IsHomepageCandidate)
    IN  IF Len(found) >= 2
        THEN \* raise ValueError("there are (at least) two homepages")
             [error |-> ErrTwoHomepages, value |-> NoEntity]
        ELSE [error |-> None,
              value |-> IF Len(found) = 1 THEN found[1]
                        ELSE generate_blog(None, None)]

\* The getter after the scan r: an exception leaves the instance as it is,
\* a value is stored in self._homepage (and cached)
Resolved(r) ==
    IF r.error # None
    THEN [value |-> NoEntity, error |-> r.error,
          homepage |-> homepage, homepage_cache |-> homepage_cache]
    ELSE [value |-> r.value, error |-> None,
          homepage |-> r.value, homepage_cache |-> r.value]

\* One call of the getter in the current state: the value returned, the
\* exception raised, self._homepage and the cache after the call.  The
\* getter is wrapped in lru_cache: a value once returned for this instance
\* is returned again without running the body; a raised exception is not
\* cached.
homepage_getter ==
    IF homepage_cache # NoEntity
    THEN [value |-> homepage_cache, error |-> None,
          homepage |-> homepage, homepage_cache |-> homepage_cache]
    ELSE IF homepage # NoEntity
    THEN [value |-> homepage, error |-> None,
          homepage |-> homepage, homepage_cache |-> homepage]
    ELSE Resolved(ResolveHomepage(HomepageScan))

ReadHomepage ==
    /\ phase = "constructed"
    /\ LET g == homepage_getter
       IN  /\ ret' = [op |-> "homepage", value |-> g.value]
           /\ error' = g.error
           /\ homepage' = g.homepage
           /\ homepage_cache' = g.homepage_cache
    /\ UNCHANGED <<configVars, outputVars, list_of_entities,
                   check_url_unique, phase, list_of_articles,
                   list_of_datasets, list_of_pages, tag_to_articles,
                   tag_to_articles_incidence, tag_to_datasets,
                   tag_to_datasets_incidence, site_map_urls, el>>

-----------------------------------------------------------------------------
(* Sites.homepage (setter) *)

ErrAliasNotNone == "AttributeError: url_alias has to be None value"

\* The setter that stores the value before it looks at the alias
homepage_setter_stores_first(stored, value) ==
    IF value.url_alias # None
    THEN [error |-> ErrAliasNotNone, homepage |-> value]
    ELSE [error |-> None, homepage |-> value]

\* self._homepage after the assignment of value, and the exception raised
homepage_setter(stored, value) ==
    IF value.url_alias # None
    THEN \* raise AttributeError('url_alias has to be None value')
         [error |-> ErrAliasNotNone, homepage |-> stored]
    ELSE [error |-> None, homepage |-> value]

CustomTitle == "Custom"

CustomAlias == "custom"

\* The pre-built listings a caller assigns: a listing of the articles and
\* one of the datasets without alias, and a listing with an alias
HomepageValues ==
    {generate_blog(CustomTitle, None), generate_datasets(CustomTitle, None),
     generate_blog(CustomTitle, CustomAlias)}

SetHomepage ==
    /\ phase = "constructed"
    /\ \E value \in HomepageValues :
         LET s == homepage_setter(homepage, value)
         IN  /\ homepage' = s.homepage
             /\ error' = s.error
             /\ ret' = [op |-> "set_homepage", value |-> value]
    /\ UNCHANGED <<configVars, outputVars, list_of_entities,
                   check_url_unique, phase, list_of_articles,
                   list_of_datasets, list_of_pages, tag_to_articles,
                   tag_to_articles_incidence, tag_to_datasets,
                   tag_to_datasets_incidence, site_map_urls, homepage_cache,
                   el>>

-----------------------------------------------------------------------------
(* Sites.generate_pages: the files written and the sitemap                 *)
(*                                                                         *)
(* A run is the record [dir_exists, files, site_map_urls, log, error]:     *)
(* the output directory, self._site_map_urls, the writes and appends done  *)
(* so far in program order and the exception that ended the run (None      *)
(* while it goes on).                                                      *)

ErrFileExists == "FileExistsError: this file already exists"

\* open(..., 'w') and shutil.copy2 in a directory that does not exist
ErrNoDirectory == "FileNotFoundError"

SiteMapFile == "sitemap.xml"

RobotsFile == "robots.txt"

\* The files of the directory Config.resources_path, in the order copied
ResourceFiles == <<"logo.png">>

\* Entity.url, the public URL of an entity: site_home_url for the entity
\* without alias, else alias + site_file_suffix
EntityUrl(ent) == generate_file_path(ent.url_alias, FALSE)

\* Position of the first occurrence of x in s, counted from 0
IndexOf(s, x) == (CHOOSE i \in 1..Len(s) :
                     s[i] = x /\ \A j \in 1..(i - 1) : s[j] # x) - 1

\* What the page of an entity shows: the entity
DetailContent(ent) == Content("detail", <<ent.kind, ToString(ent.id)>>)

\* What the page of a listing at url shows: the listing, the page position
\* and the entities of the slice
ListContent(listing, url) ==
    LET page_position == IndexOf(listing.url_list, url)
        slice == generate_entities(listing, page_position,
                                   pagination_max_item_per_page).entities
    IN  Content("list", <<listing.kind, listing.title,
                          ToString(page_position)>>
                        \o [i \in 1..Len(slice) |-> ToString(slice[i].id)])

\* The file name holds content afterwards, the other files are kept
WriteFile(fs, name, content) ==
    [n \in (DOMAIN fs) \cup {name} |-> IF n = name THEN content ELSE fs[n]]

\* The write of a file: its name and what was written
WriteEvent(file, content) ==
    [ev |-> "write", name |-> file, content |-> content]

AppendEvent(url) == [ev |-> "append", name |-> url]

OtherEvent(file) == [ev |-> "other", name |-> file]

\* WritePage that appends the URL to the sitemap list before it looks at
\* the file
WritePageAppendsFirst(run, file, url, content, rewrite_if_exists) ==
    IF run.error # None THEN run
    ELSE LET appended == [run EXCEPT !.site_map_urls = Append(@, url),
                                      !.log = Append(@, AppendEvent(url))]
         IN  IF ~rewrite_if_exists /\ file \in DOMAIN run.files
             THEN [appended EXCEPT !.error = ErrFileExists]
             ELSE IF ~run.dir_exists
             THEN [appended EXCEPT !.error = ErrNoDirectory]
             ELSE [appended EXCEPT
                      !.files = WriteFile(@, file, content),
                      !.log = Append(@, WriteEvent(file, content))]

\* WritePage that passes over a file that exists instead of raising
WritePageSkipsExisting(run, file, url, content, rewrite_if_exists) ==
    IF run.error # None THEN run
    ELSE IF ~rewrite_if_exists /\ file \in DOMAIN run.files
    THEN run
    ELSE IF ~run.dir_exists
    THEN [run EXCEPT !.error = ErrNoDirectory]
    ELSE [run EXCEPT !.files = WriteFile(@, file, content),
                     !.site_map_urls = Append(@, url),
                     !.log = @ \o <<WriteEvent(file, content), AppendEvent(url)>>]

\* The HTML file of one page: the refusal to overwrite, the write, then the
\* append to the sitemap list
WritePage(run, file, url, content, rewrite_if_exists) ==
    IF run.error # None THEN run
    ELSE IF ~rewrite_if_exists /\ file \in DOMAIN run.files
    THEN \* raise FileExistsError("this file already exists")
         [run EXCEPT !.error = ErrFileExists]
    ELSE IF ~run.dir_exists
    THEN [run EXCEPT !.error = ErrNoDirectory]
    ELSE [run EXCEPT !.files = WriteFile(@, file, content),
                     !.site_map_urls = Append(@, url),
                     !.log = @ \o <<WriteEvent(file, content), AppendEvent(url)>>]

\* Sites._generate_entity
generate_entity(run, page_entity, rewrite_if_exists) ==
    WritePage(run, generate_file_path(page_entity.url_alias, TRUE),
              EntityUrl(page_entity), DetailContent(page_entity),
              rewrite_if_exists)

\* for entity in ...: self._generate_entity(entity, ...)
RECURSIVE GenerateEntityLoop(_, _, _)
GenerateEntityLoop(run, entities, rewrite_if_exists) ==
    IF entities = <<>> THEN run
    ELSE GenerateEntityLoop(
             generate_entity(run, Head(entities), rewrite_if_exists),
             Tail(entities), rewrite_if_exists)

\* for single_url in list_page.url_list: ...
RECURSIVE GenerateListLoop(_, _, _, _)
GenerateListLoop(run, list_page, urls, rewrite_if_exists) ==
    IF urls = <<>> THEN run
    ELSE GenerateListLoop(
             WritePage(run, generate_file_path(Head(urls), TRUE),
                       generate_file_path(Head(urls), FALSE),
                       ListContent(list_page, Head(urls)),
                       rewrite_if_exists),
             list_page, Tail(urls), rewrite_if_exists)

\* Sites._generate_list_of_entities_with_pagination with list_page given
generate_list_of_entities_with_pagination(run, list_page, rewrite_if_exists) ==
    GenerateListLoop(run, list_page, list_page.url_list, rewrite_if_exists)

\* TagListing with the alias of the tag as the URL of the listing
TagListingWithoutPrefix(list_type, tag, tag_to_entities) ==
    EntityList(list_type, tag.name, Get(tag_to_entities, tag),
               tag.url_alias, pagination_max_item_per_page)

\* The listing _generate_list_of_entities_with_pagination builds for a tag
TagListing(list_type, tag, tag_to_entities) ==
    EntityList(list_type, tag.name, Get(tag_to_entities, tag),
               url_alias_with_prefix(tag), pagination_max_item_per_page)

\* for tag in self.list_..._tags: the listing of every tag, in the order of
\* the keys of the incidence dict
RECURSIVE GenerateTagLoop(_, _, _, _, _)
GenerateTagLoop(run, list_type, incidence, tag_to_entities, rewrite_if_exists) ==
    IF incidence = <<>> THEN run
    ELSE GenerateTagLoop(
             generate_list_of_entities_with_pagination(
                 run,
                 TagListing(list_type, Head(incidence).key, tag_to_entities),
                 rewrite_if_exists),
             list_type, Tail(incidence), tag_to_entities, rewrite_if_exists)

\* shutil.copytree(Config.resources_path, output_directory_path,
\* dirs_exist_ok=True): makes the directory and overwrites what is there
CopyResources(run) ==
    IF resources_path = None THEN run
    ELSE [run EXCEPT
             !.dir_exists = TRUE,
             !.files = [n \in (DOMAIN run.files) \cup Range(ResourceFiles) |->
                           IF n \in Range(ResourceFiles)
                           THEN Content("resource", <<n>>)
                           ELSE run.files[n]],
             !.log = @ \o [i \in 1..Len(ResourceFiles) |->
                              OtherEvent(ResourceFiles[i])]]

\* A file the run writes without looking whether it exists (shutil.copy2,
\* open(..., 'w'))
WriteOther(run, file, content) ==
    IF run.error # None THEN run
    ELSE IF ~run.dir_exists
    THEN [run EXCEPT !.error = ErrNoDirectory]
    ELSE [run EXCEPT !.files = WriteFile(@, file, content),
                     !.log = Append(@, OtherEvent(file))]

\* shutil.copy2(Config.css_style_path, output_directory_path / name)
CopyCss(run) ==
    IF css_style_path = None THEN run
    ELSE WriteOther(run, css_style_path, Content("css", <<css_style_path>>))

\* The URL of the sitemap file for a URL of the sitemap list
SiteMapUrl(single_url) ==
    IF single_url = "/" THEN site_map_url_prefix
    ELSE site_map_url_prefix \o single_url

WriteSiteMap(run) ==
    WriteOther(run, SiteMapFile,
               Content("sitemap", [i \in 1..Len(run.site_map_urls) |->
                                      SiteMapUrl(run.site_map_urls[i])]))

WriteRobots(run) == WriteOther(run, RobotsFile, Content("robots", <<>>))

blog_title == "Blog"

dataset_title == "Data catalogue"

\* The run at the start of a call: the directory is made when
\* rewrite_if_exists holds
StartRun(rewrite_if_exists) ==
    [dir_exists |-> dir_exists \/ rewrite_if_exists,
     files |-> files,
     site_map_urls |-> site_map_urls,
     log |-> <<>>,
     error |-> None]

\* The detail pages of the articles and of the datasets
GenerateDetails(run, rewrite_if_exists) ==
    GenerateEntityLoop(
        GenerateEntityLoop(run, list_of_articles, rewrite_if_exists),
        list_of_datasets, rewrite_if_exists)

\* The first read of self.homepage in the call: its exception ends the run
RaiseFromGetter(run, getter) ==
    IF run.error = None /\ getter.error # None
    THEN [run EXCEPT !.error = getter.error]
    ELSE run

\* if isinstance(self.homepage, list_type): the listing of the homepage
HomepageListing(run, homepage_ent, list_type, rewrite_if_exists) ==
    IF homepage_ent.kind = list_type
    THEN generate_list_of_entities_with_pagination(run, homepage_ent,
                                                   rewrite_if_exists)
    ELSE run

\* if Config.blog_url: the listing of all articles at that URL
BlogListing(run, rewrite_if_exists) ==
    IF blog_url # None
    THEN generate_list_of_entities_with_pagination(
             run, generate_blog(blog_title, blog_url), rewrite_if_exists)
    ELSE run

\* if Config.dataset_url: the listing of all datasets at that URL
CatalogueListing(run, rewrite_if_exists) ==
    IF dataset_url # None
    THEN generate_list_of_entities_with_pagination(
             run, generate_datasets(dataset_title, dataset_url),
             rewrite_if_exists)
    ELSE run

\* The listings of the articles: homepage, tags, blog
ArticleListings(run, homepage_ent, rewrite_if_exists) ==
    BlogListing(
        GenerateTagLoop(
            HomepageListing(run, homepage_ent, "ListOfArticles",
                            rewrite_if_exists),
            "ListOfArticles", tag_to_articles_incidence, tag_to_articles,
            rewrite_if_exists),
        rewrite_if_exists)

\* The listings of the datasets: homepage, tags, catalogue
DatasetListings(run, homepage_ent, rewrite_if_exists) ==
    CatalogueListing(
        GenerateTagLoop(
            HomepageListing(run, homepage_ent, "ListOfDatasets",
                            rewrite_if_exists),
            "ListOfDatasets", tag_to_datasets_incidence, tag_to_datasets,
            rewrite_if_exists),
        rewrite_if_exists)

\* What follows the detail pages of articles and datasets: the read of
\* self.homepage, the listings, the detail pages of the pages, sitemap.xml
\* and robots.txt.  The call reads self.homepage (and so changes
\* self._homepage and the cache of the getter) only when it gets that far.
FinishRun(details, getter, rewrite_if_exists) ==
    [run |-> WriteRobots(WriteSiteMap(
                 GenerateEntityLoop(
                     DatasetListings(
                         ArticleListings(RaiseFromGetter(details, getter),
                                         getter.value, rewrite_if_exists),
                         getter.value, rewrite_if_exists),
                     list_of_pages, rewrite_if_exists))),
     homepage |-> IF details.error = None THEN getter.homepage
                  ELSE homepage,
     homepage_cache |-> IF details.error = None THEN getter.homepage_cache
                        ELSE homepage_cache]

\* One call of generate_pages in the current state: the run at its end (or
\* at the exception), self._homepage and the cache of its getter
generate_pages(rewrite_if_exists) ==
    FinishRun(GenerateDetails(CopyCss(CopyResources(
                                  StartRun(rewrite_if_exists))),
                              rewrite_if_exists),
              homepage_getter, rewrite_if_exists)

\* Sites.generate_pages(output_directory_path, rewrite_if_exists=...); the
\* sitemap list is kept below MaxSiteMapLen entries at the start of a call
GeneratePages ==
    /\ phase = "constructed"
    /\ Len(site_map_urls) <= MaxSiteMapLen
    /\ \E rewrite_if_exists \in BOOLEAN :
         LET gp == generate_pages(rewrite_if_exists)
         IN  /\ dir_exists' = gp.run.dir_exists
             /\ files' = gp.run.files
             /\ site_map_urls' = gp.run.site_map_urls
             /\ run_log' = gp.run.log
             /\ error' = gp.run.error
             /\ homepage' = gp.homepage
             /\ homepage_cache' = gp.homepage_cache
             /\ ret' = [op |-> "generate_pages",
                        rewrite_if_exists |-> rewrite_if_exists]
    /\ UNCHANGED <<configVars, list_of_entities, check_url_unique, phase,
                   list_of_articles, list_of_datasets, list_of_pages,
                   tag_to_articles, tag_to_articles_incidence,
                   tag_to_datasets, tag_to_datasets_incidence, el>>

-----------------------------------------------------------------------------
(* Operations on an EntityList instance *)

ListAliases == {None, "blog"}

\* EntityList(title, list_of_entities, url_alias): the entities are
\* identified by 1..n
EntityListInit ==
    /\ \E n \in 0..MaxListLen, url_alias \in ListAliases :
           el' = EntityList("ListOfArticles", "title",
                            [i \in 1..n |-> i], url_alias,
                            pagination_max_item_per_page)
    /\ ret' = [op |-> "__init__"]
    /\ UNCHANGED <<configVars, outputVars, sitesVars>>

\* The page positions the operations are called with: every page of the
\* listing and the position one past the last page
PagePositions == 0..Len(el.url_list)

GenerateEntities ==
    /\ el # NoListing
    /\ \E page_position \in PagePositions :
           ret' = generate_entities(el, page_position,
                                    pagination_max_item_per_page)
    /\ UNCHANGED <<configVars, outputVars, sitesVars, el>>

GeneratePaginationNavBar ==
    /\ el # NoListing
    /\ \E page_position \in 0..(Len(el.url_list) - 1) :
           ret' = generate_pagination_nav_bar(el, page_position)
    /\ UNCHANGED <<configVars, outputVars, sitesVars, el>>

\* list.index(url) on a URL that is not in the list
ErrNotInList == "ValueError: x is not in list"

\* generate_page that renders the first page for a URL it does not find
generate_page_first_on_missing(listing, url) ==
    LET page_position == IF url \in Range(listing.url_list)
                         THEN IndexOf(listing.url_list, url)
                         ELSE 0
    IN  [op |-> "generate_page", url |-> url, error |-> None,
         page_position |-> page_position,
         html_str |->
             <<generate_pagination_nav_bar(listing, page_position),
               generate_entities(listing, page_position,
                                 pagination_max_item_per_page)>>]

\* EntityList.generate_page(url): the position of url in url_list, then
\* the template rendered with the navigation bar and the entities of that
\* position; html_str is None when nothing was rendered
generate_page(listing, url) ==
    IF url \notin Range(listing.url_list)
    THEN \* self.url_list.index(url) raises ValueError
         [op |-> "generate_page", url |-> url, error |-> ErrNotInList,
          html_str |-> None]
    ELSE [op |-> "generate_page", url |-> url, error |-> None,
          page_position |-> IndexOf(listing.url_list, url),
          html_str |->
              <<generate_pagination_nav_bar(
                    listing, IndexOf(listing.url_list, url)),
                generate_entities(listing, IndexOf(listing.url_list, url),
                                  pagination_max_item_per_page)>>]

\* URLs asked for besides those of the listing: the alias of another
\* listing, a file name, the URL of a page past the last one, the root of
\* the pagination URLs
OtherUrls ==
    {None, "blog", "blog.html", "page-1",
     "blog" \o pagination_prefix \o pagination_suffix,
     "blog" \o pagination_prefix \o pagination_suffix \o "9"}

GeneratePage ==
    /\ el # NoListing
    /\ \E url \in Range(el.url_list) \cup OtherUrls :
           ret' = generate_page(el, url)
    /\ UNCHANGED <<configVars, outputVars, sitesVars, el>>

-----------------------------------------------------------------------------
(* Specifications *)

DefaultPageSize == 7

DefaultBlogUrl == "blog"

DefaultDatasetUrl == "catalogue"

\* Config.css_style_path.name
DefaultCssStyle == "style.css"

Kinds == {"Page", "Article", "Dataset"}

Aliases == {None, "a", "b"}

TagUniverse == {Tag("A", "a"), Tag("B", "a"), Tag("C", "c")}

\* Config as the package ships it (apart from the page size)
DefaultConfig ==
    /\ blog_url = DefaultBlogUrl
    /\ dataset_url = DefaultDatasetUrl
    /\ css_style_path = DefaultCssStyle
    /\ resources_path = None

\* No output directory yet
NoOutput ==
    /\ dir_exists = FALSE
    /\ files = NoFiles

InitInstance ==
    /\ phase = "new"
    /\ error = None
    /\ list_of_articles = <<>>
    /\ list_of_datasets = <<>>
    /\ list_of_pages = <<>>
    /\ tag_to_articles = <<>>
    /\ tag_to_articles_incidence = <<>>
    /\ tag_to_datasets = <<>>
    /\ tag_to_datasets_incidence = <<>>
    /\ site_map_urls = <<>>
    /\ homepage = NoEntity
    /\ homepage_cache = NoEntity
    /\ el = NoListing
    /\ ret = [op |-> "none"]
    /\ run_log = <<>>

\* Entity lists of pages, articles and datasets with any aliases, without
\* tags
Init ==
    /\ pagination_max_item_per_page = DefaultPageSize
    /\ DefaultConfig
    /\ NoOutput
    /\ check_url_unique \in BOOLEAN
    /\ \E n \in 0..MaxEntities :
         \E kinds \in [1..n -> Kinds], aliases \in [1..n -> Aliases] :
           list_of_entities =
               [i \in 1..n |->
                   Entity(i, kinds[i], aliases[i],
                          IF kinds[i] = "Page" THEN 0 ELSE 1, <<>>,
                          NoPosition)]
    /\ InitInstance

Next == Construct \/ ReadHomepage

Spec == Init /\ [][Next]_vars

\* Entity lists of articles and datasets with distinct aliases, any dates
\* and any tags: the tag occurrences of all entities together are one
\* sequence of at most MaxTagUses tags, cut into one piece per entity
InitTags ==
    /\ pagination_max_item_per_page = DefaultPageSize
    /\ DefaultConfig
    /\ NoOutput
    /\ check_url_unique = TRUE
    /\ \E n \in 0..MaxTagged :
         \E kinds \in [1..n -> {"Article", "Dataset"}],
            dates \in [1..n -> 1..MaxDate],
            uses \in SeqsUpTo(TagUniverse, MaxTagUses) :
           \E cuts \in [0..n -> 0..Len(uses)] :
             /\ cuts[0] = 0
             /\ cuts[n] = Len(uses)
             /\ \A i \in 1..n : cuts[i - 1] <= cuts[i]
             /\ list_of_entities =
                  [i \in 1..n |->
                      Entity(i, kinds[i], "e" \o ToString(i), dates[i],
                             SubSeq(uses, cuts[i - 1] + 1, cuts[i]),
                             NoPosition)]
    /\ InitInstance

SpecTags == InitTags /\ [][Next]_vars

\* A listing with any page size
InitList ==
    /\ pagination_max_item_per_page \in 1..MaxPageSize
    /\ DefaultConfig
    /\ NoOutput
    /\ check_url_unique = TRUE
    /\ list_of_entities = <<>>
    /\ InitInstance

NextList ==
    EntityListInit \/ GenerateEntities \/ GeneratePaginationNavBar
    \/ GeneratePage

SpecList == InitList /\ [][NextList]_vars

HomeAliases == {None, "a"}

\* Sites of pages, articles and datasets with or without a dedicated blog
\* and catalogue URL; the homepage is read, assigned and generated
InitHome ==
    /\ pagination_max_item_per_page = DefaultPageSize
    /\ blog_url \in {None, DefaultBlogUrl}
    /\ dataset_url \in {None, DefaultDatasetUrl}
    /\ css_style_path = DefaultCssStyle
    /\ resources_path = None
    /\ NoOutput
    /\ check_url_unique \in BOOLEAN
    /\ \E n \in 0..MaxHomeEntities :
         \E kinds \in [1..n -> Kinds], aliases \in [1..n -> HomeAliases] :
           list_of_entities =
               [i \in 1..n |->
                   Entity(i, kinds[i], aliases[i],
                          IF kinds[i] = "Page" THEN 0 ELSE 1, <<>>,
                          NoPosition)]
    /\ InitInstance

NextHome == Construct \/ ReadHomepage \/ SetHomepage \/ GeneratePages

SpecHome == InitHome /\ [][NextHome]_vars

GenTag == Tag("A", "a")

\* The alias of the entity at position i of the list: none, one of its
\* own ("e1", "e2", ...), or the alias Config.blog_url
GenAlias(choice, i) ==
    IF choice = "own" THEN "e" \o ToString(i) ELSE choice

GenChoices(kind) ==
    IF kind = "Article" THEN {None, "own", DefaultBlogUrl}
    ELSE IF kind = "Page" THEN {None, "own"}
    ELSE {"own"}

\* The files found in the output directory before the first call
OldFiles ==
    {{}, {"e1.html"}, {DefaultBlogUrl \o site_file_suffix}, {SiteMapFile}}

\* Sites of pages, articles and datasets, with and without a tag, one
\* entity per page of a listing; the output directory is missing, empty or
\* holds a file of an earlier build
InitGen ==
    /\ pagination_max_item_per_page = 1
    /\ blog_url \in {None, DefaultBlogUrl}
    /\ dataset_url \in {None, DefaultDatasetUrl}
    /\ \E paths \in {<<DefaultCssStyle, None>>, <<None, "resources">>,
                     <<None, None>>} :
           css_style_path = paths[1] /\ resources_path = paths[2]
    /\ \/ dir_exists = FALSE /\ files = NoFiles
       \/ /\ dir_exists = TRUE
          /\ \E old \in OldFiles :
                 files = [name \in old |-> Content("old", <<>>)]
    /\ check_url_unique = TRUE
    /\ \E n \in 0..MaxGenEntities :
         \E kinds \in [1..n -> Kinds], tagged \in [1..n -> BOOLEAN],
            choices \in [1..n -> {None, "own", DefaultBlogUrl}] :
             /\ \A i \in 1..n :
                  /\ kinds[i] = "Page" => ~tagged[i]
                  /\ choices[i] \in GenChoices(kinds[i])
             /\ list_of_entities =
                  [i \in 1..n |->
                      Entity(i, kinds[i], GenAlias(choices[i], i),
                             IF kinds[i] = "Page" THEN 0 ELSE 1,
                             IF tagged[i] THEN <<GenTag>> ELSE <<>>,
                             NoPosition)]
    /\ InitInstance

NextGen == Construct \/ GeneratePages

SpecGen == InitGen /\ [][NextGen]_vars

\* The alias of the last article of the scenario: one of its own, or one
\* that is also the URL of the second page of the homepage listing
LastAliases == {"e8", pagination_suffix \o "1"}

\* The scenario of eight articles without tags, with distinct aliases and
\* any dates, no page, no dataset, neither blog URL nor catalogue URL, three
\* entities per page; the output directory is missing or empty
InitScenario ==
    /\ pagination_max_item_per_page = 3
    /\ blog_url = None
    /\ dataset_url = None
    /\ css_style_path = DefaultCssStyle
    /\ resources_path = None
    /\ dir_exists \in BOOLEAN
    /\ files = NoFiles
    /\ check_url_unique = TRUE
    /\ \E dates \in [1..8 -> 1..MaxDate], last \in LastAliases :
           list_of_entities =
               [i \in 1..8 |->
                   Entity(i, "Article",
                          IF i = 8 THEN last ELSE "e" \o ToString(i),
                          dates[i], <<>>, NoPosition)]
    /\ InitInstance

SpecScenario == InitScenario /\ [][NextGen]_vars

-----------------------------------------------------------------------------
(* Properties of Sites.__init__ (checked under Spec) *)

\* Two entities of the list share a non-null alias
SharesAlias(entities) ==
    \E i, j \in 1..Len(entities) :
        /\ i # j
        /\ entities[i].url_alias # None
        /\ entities[i].url_alias = entities[j].url_alias

\* Number of entities of the list without alias
NullAliases(entities) ==
    Cardinality({i \in 1..Len(entities) : entities[i].url_alias = None})

Constructed == phase = "constructed"

ConstructionFailed == phase = "failed"

\* C1: with check_url_unique=True, constructing Sites from a list in which
\* two entities (of any kinds) share a non-null url_alias fails with the
\* duplicate-URL error, and constructing from a list whose non-null aliases
\* are pairwise distinct and that holds at most one null alias succeeds.
C1_DuplicateUrlIsFatal ==
    (check_url_unique /\ phase # "new") =>
        /\ SharesAlias(list_of_entities) =>
               (ConstructionFailed /\ error = ErrNotUnique)
        /\ (~SharesAlias(list_of_entities)
            /\ NullAliases(list_of_entities) <= 1) =>
               (Constructed /\ error = None)

\* C1 witness: the constructor has failed on a list in which two entities of
\* different kinds share a non-null alias
C1_Witness ==
    /\ check_url_unique
    /\ ConstructionFailed
    /\ \E i, j \in 1..Len(list_of_entities) :
           /\ list_of_entities[i].kind # list_of_entities[j].kind
           /\ list_of_entities[i].url_alias # None
           /\ list_of_entities[i].url_alias = list_of_entities[j].url_alias

\* C2 as stated: whenever assembling a list with two or more null aliases
\* (and no shared non-null alias) raises, the error is the
\* multiple-homepages error and not the duplicate-URL error.
C2_Original ==
    (NullAliases(list_of_entities) >= 2 /\ ~SharesAlias(list_of_entities)
     /\ error # None) =>
        error = ErrTwoHomepages

-----------------------------------------------------------------------------
(* Properties of EntityList (checked under SpecList) *)

Max(a, b) == IF a >= b THEN a ELSE b

RECURSIVE Concat(_)
Concat(seqs) == IF seqs = <<>> THEN <<>> ELSE Head(seqs) \o Concat(Tail(seqs))

NrOfEntities == Len(el.list_of_entities)

\* C3 as stated: number_of_pages is max(1, ceil(n/p)), so 1 for the empty
\* list, and equals the length of url_list.
C3_NumberOfPages ==
    el # NoListing =>
        /\ el.number_of_pages =
               Max(1, Ceil(NrOfEntities, pagination_max_item_per_page))
        /\ el.number_of_pages = Len(el.url_list)

\* The slice of every page of the listing, in page order
Slices ==
    [k \in 1..Len(el.url_list) |->
        generate_entities(el, k - 1, pagination_max_item_per_page).entities]

\* C4: generate_entities(k) returns the entities at the indices
\* [k*p, min((k+1)*p, n)); the slices of the pages 0..len(url_list)-1
\* concatenated in order are the original list, and only the slice of an
\* empty listing is empty.
C4_SlicesPartitionTheList ==
    el # NoListing =>
        /\ Concat(Slices) = el.list_of_entities
        /\ \A k \in 1..Len(Slices) :
               Slices[k] = <<>> => el.list_of_entities = <<>>
        /\ (ret.op = "generate_entities"
            /\ ret.page_position < Len(el.url_list)) =>
               LET lo == ret.page_position * pagination_max_item_per_page
                   hi == Min(lo + pagination_max_item_per_page, NrOfEntities)
               IN  /\ ret.entities_length = hi - lo
                   /\ Len(ret.entities) = hi - lo
                   /\ \A i \in 1..(hi - lo) :
                          ret.entities[i] = el.list_of_entities[lo + i]

\* C4 witness: generate_entities has returned the last, partly filled page
\* of a listing of several pages
C4_Witness ==
    /\ el # NoListing
    /\ ret.op = "generate_entities"
    /\ ret.page_position >= 1
    /\ ret.page_position = Len(el.url_list) - 1
    /\ ret.entities_length >= 1
    /\ ret.entities_length < pagination_max_item_per_page

\* C5 as stated: entry 0 of url_list is url_alias and entry k >= 1 is
\* base + pagination_prefix + pagination_suffix + k, with base the empty
\* string for a null alias (so '-page-1' for the homepage listing).
C5_Original ==
    el # NoListing =>
        /\ el.url_list[1] = el.url_alias
        /\ \A k \in 1..(Len(el.url_list) - 1) :
               el.url_list[k + 1] =
                   (IF el.url_alias # None THEN el.url_alias ELSE "")
                   \o "-" \o "page-" \o ToString(k)

\* C5 amended: entry 0 of url_list is url_alias; entry k >= 1 is
\* url_alias + '-' + 'page-' + k for a non-null alias and 'page-' + k,
\* without the prefix, for a null alias; the pages of a null-alias listing
\* are written to index.html, page-1.html, page-2.html, ...
C5_PaginationUrls ==
    el # NoListing =>
        /\ el.url_list[1] = el.url_alias
        /\ generate_file_path(el.url_list[1], TRUE) =
               (IF el.url_alias = None THEN "index.html"
                ELSE el.url_alias \o ".html")
        /\ \A k \in 1..(Len(el.url_list) - 1) :
               /\ el.url_list[k + 1] =
                      (IF el.url_alias = None
                       THEN "page-" \o ToString(k)
                       ELSE el.url_alias \o "-page-" \o ToString(k))
               /\ el.url_alias = None =>
                      generate_file_path(el.url_list[k + 1], TRUE) =
                          "page-" \o ToString(k) \o ".html"

\* C5 witness: a null-alias listing of three pages
C5_Witness ==
    /\ el # NoListing
    /\ el.url_alias = None
    /\ el.url_list = <<None, "page-1", "page-2">>

\* The public URL of the page at index k (from 0) of the listing
PublicUrl(k) ==
    IF el.url_list[k + 1] = None THEN site_home_url
    ELSE el.url_list[k + 1] \o site_file_suffix

\* C6: generate_pagination_nav_bar(p) gives navigation_next = URL of page
\* p-1 when p > 0 and none when p = 0, and navigation_previous = URL of
\* page p+1 when p < N-1 and none when p = N-1.
C6_NavigationDirection ==
    (el # NoListing /\ ret.op = "generate_pagination_nav_bar") =>
        LET p == ret.page_position
            N == Len(el.url_list)
        IN  /\ p \in 0..(N - 1)
            /\ ret.navigation_next =
                   (IF p > 0 THEN PublicUrl(p - 1) ELSE None)
            /\ ret.navigation_previous =
                   (IF p < N - 1 THEN PublicUrl(p + 1) ELSE None)
            /\ (N = 3 /\ p = 0) =>
                   /\ ret.navigation_next = None
                   /\ ret.navigation_previous = PublicUrl(1)
            /\ (N = 3 /\ p = 1) =>
                   /\ ret.navigation_next = PublicUrl(0)
                   /\ ret.navigation_previous = PublicUrl(2)
            /\ (N = 3 /\ p = 2) =>
                   /\ ret.navigation_next = PublicUrl(1)
                   /\ ret.navigation_previous = None

\* C6 witness: the navigation bar of the middle page of a three-page listing
C6_Witness ==
    /\ el # NoListing
    /\ ret.op = "generate_pagination_nav_bar"
    /\ Len(el.url_list) = 3
    /\ ret.page_position = 1
    /\ ret.navigation_next # None
    /\ ret.navigation_previous # None

-----------------------------------------------------------------------------
(* Properties of the tag index (checked under SpecTags) *)

\* The tags met while scanning a list of entities in order, each entity's
\* tags in list order
RECURSIVE TagsInScanOrder(_)
TagsInScanOrder(entities) ==
    IF entities = <<>> THEN <<>>
    ELSE Head(entities).tags \o TagsInScanOrder(Tail(entities))

\* Position at which the tag is first met in the scan
FirstSeen(scan, tag) ==
    CHOOSE i \in 1..Len(scan) :
        scan[i] = tag /\ \A j \in 1..(i - 1) : scan[j] # tag

\* The incidence dict iterates in non-increasing count order, equal counts
\* in first-seen order of the scan of the (date-descending) entity list
IncidenceOrdered(incidence, entities) ==
    LET scan == TagsInScanOrder(entities)
    IN  \A i, j \in 1..Len(incidence) :
            i < j =>
                /\ incidence[i].val >= incidence[j].val
                /\ incidence[i].val = incidence[j].val =>
                       FirstSeen(scan, incidence[i].key)
                           < FirstSeen(scan, incidence[j].key)

DateDescending(entities) ==
    \A i, j \in 1..Len(entities) :
        i < j => entities[i].date >= entities[j].date

\* C7: the tag-to-incidence mapping iterates its tags in non-increasing
\* order of count, and tags with equal counts in the order in which they
\* were first met while scanning the entities in date-descending order.
C7_IncidenceOrder ==
    Constructed =>
        /\ DateDescending(list_of_articles)
        /\ DateDescending(list_of_datasets)
        /\ IncidenceOrdered(tag_to_articles_incidence, list_of_articles)
        /\ IncidenceOrdered(tag_to_datasets_incidence, list_of_datasets)

\* C7 witness: an article index in which two tags have equal counts, built
\* from articles given oldest first
C7_Witness ==
    /\ Constructed
    /\ \E i, j \in 1..Len(tag_to_articles_incidence) :
           /\ i < j
           /\ tag_to_articles_incidence[i].val
                  = tag_to_articles_incidence[j].val
    /\ Len(list_of_articles) = 2
    /\ list_of_articles[1].id > list_of_articles[2].id

\* The entities of the kind given to the constructor that carry the tag
Carriers(kind, tag) ==
    {ent \in Range(list_of_entities) :
        ent.kind = kind /\ tag \in Range(ent.tags)}

\* Every tag carried by an entity of the kind is a key, and the list of
\* every key is in date-descending order and holds the carriers of the key
TagListsExact(tag_to_entities, kind) ==
    /\ \A ent \in Range(list_of_entities) :
           ent.kind = kind =>
               \A tag \in Range(ent.tags) :
                   \E i \in 1..Len(tag_to_entities) :
                       tag_to_entities[i].key = tag
    /\ \A i \in 1..Len(tag_to_entities) :
           /\ DateDescending(tag_to_entities[i].val)
           /\ Range(tag_to_entities[i].val)
                  = Carriers(kind, tag_to_entities[i].key)

\* C8: for every tag of the article index and of the dataset index,
\* tag_to_entities[tag] is sorted by date in non-increasing order and
\* contains exactly the entities of that kind that carry the tag.
C8_TagListsByDate ==
    Constructed =>
        /\ TagListsExact(tag_to_articles, "Article")
        /\ TagListsExact(tag_to_datasets, "Dataset")

\* C8 witness: a per-tag list of two datasets of different dates that were
\* given oldest first
C8_Witness ==
    /\ Constructed
    /\ \E i \in 1..Len(tag_to_datasets) :
           /\ Len(tag_to_datasets[i].val) = 2
           /\ tag_to_datasets[i].val[1].date > tag_to_datasets[i].val[2].date
           /\ tag_to_datasets[i].val[1].id > tag_to_datasets[i].val[2].id

\* No two keys of the dict have the same url_alias
KeysDistinctByAlias(d) ==
    \A i, j \in 1..Len(d) :
        d[i].key.url_alias = d[j].key.url_alias => i = j

\* C9 as stated: Tag values with the same url_alias and different names are
\* one key of the tag index.
C9_SameAliasSameTag ==
    Constructed =>
        /\ KeysDistinctByAlias(tag_to_articles)
        /\ KeysDistinctByAlias(tag_to_articles_incidence)
        /\ KeysDistinctByAlias(tag_to_datasets)
        /\ KeysDistinctByAlias(tag_to_datasets_incidence)

\* The incidence of every tag is the number of distinct entities of the
\* list that carry it, and each of them is once in the list of the tag
CountsEntities(incidence, tag_to_entities, entities) ==
    /\ \A i \in 1..Len(incidence) :
           incidence[i].val =
               Cardinality({k \in 1..Len(entities) :
                               incidence[i].key \in Range(entities[k].tags)})
    /\ \A i \in 1..Len(tag_to_entities) :
           \A m, n \in 1..Len(tag_to_entities[i].val) :
               tag_to_entities[i].val[m].id = tag_to_entities[i].val[n].id
                   => m = n

\* C10 as stated: tag_to_incidence[tag] is the number of distinct entities
\* carrying the tag, also when an entity lists the tag more than once (it
\* is counted once and is once in tag_to_entities[tag]).
C10_IncidenceCountsEntities ==
    Constructed =>
        /\ CountsEntities(tag_to_articles_incidence, tag_to_articles,
                          list_of_articles)
        /\ CountsEntities(tag_to_datasets_incidence, tag_to_datasets,
                          list_of_datasets)

-----------------------------------------------------------------------------
(* Properties of the homepage resolution (checked under Spec) *)

\* The entities of the list given to Sites that have no alias
WithoutAlias == SelectSeq(list_of_entities, IsHomepageCandidate)

\* The last operation was a read of Sites.homepage
HomepageWasRead == Constructed /\ ret.op = "homepage"

\* C11: resolving the homepage of a site whose homepage was never assigned:
\* when exactly one entity (page, article or dataset) has url_alias None,
\* the read returns that entity and stores it; when two or more have (a
\* site built with check_url_unique = False), the read raises the
\* two-homepages ValueError and no homepage is stored.
C11_HomepageResolution ==
    HomepageWasRead =>
        /\ Len(WithoutAlias) = 1 =>
               /\ error = None
               /\ ret.value = WithoutAlias[1]
               /\ homepage = WithoutAlias[1]
        /\ Len(WithoutAlias) >= 2 =>
               /\ error = ErrTwoHomepages
               /\ ret.value = NoEntity
               /\ homepage = NoEntity

\* A read of the homepage of a site with two entities without alias, of
\* different kinds
C11_Witness ==
    /\ HomepageWasRead
    /\ Len(WithoutAlias) >= 2
    /\ WithoutAlias[1].kind # WithoutAlias[2].kind
    /\ error = ErrTwoHomepages


-----------------------------------------------------------------------------
(* Properties of the homepage of a site that is read, assigned and         *)
(* generated (checked under SpecHome)                                      *)

\* A step that resolves the homepage of a site without any entity without
\* alias: none is stored before, one is stored after, and the step is not an
\* assignment by the caller
SynthesisStep ==
    /\ Constructed
    /\ Len(WithoutAlias) = 0
    /\ homepage = NoEntity
    /\ homepage' # NoEntity
    /\ ret'.op # "set_homepage"

\* C12 as stated: the synthesized homepage is a listing without alias, of
\* all articles when a blog URL is configured, else of all datasets or
\* empty.
C12_Original ==
    [][SynthesisStep =>
          /\ homepage'.url_alias = None
          /\ blog_url # None =>
                 homepage'.list_of_entities = list_of_articles
          /\ blog_url = None =>
                 homepage'.list_of_entities \in {list_of_datasets, <<>>}]_vars

\* C12: when no entity has url_alias None, the synthesized homepage is the
\* ListOfArticles of all articles (in their order) without title and
\* without alias, whatever blog URL and catalogue URL are configured; it is
\* an empty listing exactly when the site has no article.
C12_SynthesizedHomepage ==
    [][SynthesisStep =>
          /\ homepage'.kind = "ListOfArticles"
          /\ homepage'.url_alias = None
          /\ homepage'.title = None
          /\ homepage'.list_of_entities = list_of_articles
          /\ homepage_cache' = homepage'
          /\ ret'.op = "homepage" => ret'.value = homepage']_vars

\* The homepage read on a site with articles and datasets, none without
\* alias, and no blog URL: the listing of the articles
C12_Witness ==
    /\ HomepageWasRead
    /\ Len(WithoutAlias) = 0
    /\ blog_url = None
    /\ list_of_articles # <<>>
    /\ list_of_datasets # <<>>
    /\ ret.value = homepage
    /\ homepage.kind = "ListOfArticles"
    /\ homepage.title = None
    /\ homepage.list_of_entities = list_of_articles


\* The stored homepage is a listing without alias that a caller assigned
Assigned ==
    /\ homepage.kind \in {"ListOfArticles", "ListOfDatasets"}
    /\ homepage.title = CustomTitle

\* The last operation was a call of generate_pages that ended without
\* exception
PagesGenerated ==
    Constructed /\ ret.op = "generate_pages" /\ error = None

\* C13 as stated: once a caller has assigned a listing without alias to
\* Sites.homepage, every later read of Sites.homepage returns that listing
\* and generate_pages renders it as the homepage listing (the home file is
\* the first page of that listing), also when the homepage had been read
\* before the assignment.
C13_AssignedHomepageIsUsed ==
    Assigned =>
        /\ (HomepageWasRead /\ error = None) => ret.value = homepage
        /\ (PagesGenerated /\ Len(WithoutAlias) = 0) =>
               /\ site_home_file_name \in DOMAIN files
               /\ files[site_home_file_name] = ListContent(homepage, None)


\* A step that assigns an entity with an alias to Sites.homepage
RejectedAssignment ==
    /\ ret'.op = "set_homepage"
    /\ ret'.value.url_alias # None

\* C14: assigning an entity whose url_alias is not None to Sites.homepage
\* raises the AttributeError and changes neither the stored homepage nor
\* the cache of the getter, so that a read that follows returns what it
\* would have returned without the assignment.
C14_RejectedAssignmentKeepsHomepage ==
    [][RejectedAssignment =>
          /\ error' = ErrAliasNotNone
          /\ homepage' = homepage
          /\ homepage_cache' = homepage_cache
          /\ homepage_getter' = homepage_getter]_vars

\* An assignment was refused on a site whose homepage is stored
C14_Witness ==
    /\ Constructed
    /\ ret.op = "set_homepage"
    /\ ret.value.url_alias = CustomAlias
    /\ error = ErrAliasNotNone
    /\ homepage # NoEntity
    /\ homepage # ret.value


-----------------------------------------------------------------------------
(* Properties of generate_pages (checked under SpecGen)                    *)

IsWrite(event) == event.ev = "write"

IsAppend(event) == event.ev = "append"

\* The names (files or URLs) of the events of a log, in order
Names(events) == [i \in 1..Len(events) |-> events[i].name]

\* The HTML files a log wrote and the URLs it appended, in order
WrittenFiles(log) == Names(SelectSeq(log, IsWrite))

AppendedUrls(log) == Names(SelectSeq(log, IsAppend))

\* The other files (copies, sitemap, robots) a log wrote
OtherFiles(log) == {log[i].name : i \in {j \in 1..Len(log) : log[j].ev = "other"}}

\* The HTML files a call in the current state writes, in order, when no
\* file stops it
PlannedFiles == WrittenFiles(generate_pages(TRUE).run.log)

\* A step that is a call of generate_pages with rewrite_if_exists = False
CallWithoutRewrite ==
    /\ Constructed
    /\ ret'.op = "generate_pages"
    /\ ~ret'.rewrite_if_exists

\* The file at position k of plan is in the directory when its turn comes:
\* it was there before the call or an earlier page of the call has the same
\* file
Conflict(plan, k) ==
    \/ plan[k] \in DOMAIN files
    \/ \E j \in 1..(k - 1) : plan[j] = plan[k]

\* A file is the same before and after the step
Untouched(file) ==
    IF file \in DOMAIN files
    THEN file \in DOMAIN files' /\ files'[file] = files[file]
    ELSE file \notin DOMAIN files'

C16_NoRewriteWithoutFlag ==
    [][(CallWithoutRewrite /\ error' = None)
       => \A name \in DOMAIN files : Untouched(name)]_vars


\* C17 as stated: after any sequence of calls of generate_pages with
\* rewrite_if_exists = True on one instance, the sitemap of the last call
\* that ended without exception is that of a single call on a fresh
\* instance: the URLs that call emitted, in order, each as often as it was
\* emitted; and sitemap.xml lists the same.
C17_RerunIsIdempotent ==
    (PagesGenerated /\ ret.rewrite_if_exists) =>
        /\ site_map_urls = AppendedUrls(run_log)
        /\ files[SiteMapFile].data =
               [i \in 1..Len(AppendedUrls(run_log)) |->
                   SiteMapUrl(AppendedUrls(run_log)[i])]


\* The public URL of an HTML file of the output directory
PublicUrlOfFile(file) ==
    IF file = site_home_file_name THEN site_home_url ELSE file

\* After the first k events of the log of a call that started with an empty
\* sitemap list, the URLs appended are the public URLs of the HTML files
\* written, in order; only the file written by event k itself, if it is a
\* write, has its URL still to come
SiteMapFollowsWrites(log, k) ==
    LET written == WrittenFiles(SubSeq(log, 1, k))
        urls == [i \in 1..Len(written) |-> PublicUrlOfFile(written[i])]
        appended == AppendedUrls(SubSeq(log, 1, k))
    IN  IF k > 0 /\ IsWrite(log[k])
        THEN appended = SubSeq(urls, 1, Len(urls) - 1)
        ELSE appended = urls

\* A step that is a call of generate_pages on an instance whose sitemap
\* list is empty
FreshCall ==
    /\ Constructed
    /\ site_map_urls = <<>>
    /\ ret'.op = "generate_pages"

\* C18: during a call of generate_pages on a fresh instance the running
\* sitemap list is at every point the sequence of the public URLs of the
\* HTML files written so far, in the order written: every write is followed
\* by the append of the URL of that file and of nothing else, and no URL is
\* appended before its file is written; this holds up to the end of the
\* call or the exception that ends it.
C18_SiteMapFollowsWrites ==
    [][FreshCall =>
          /\ \A k \in 0..Len(run_log') : SiteMapFollowsWrites(run_log', k)
          /\ site_map_urls' = AppendedUrls(run_log')]_vars

\* A first call that wrote at least two pages and then stopped at a file
\* that exists; the sitemap list holds the URLs of the pages written
C18_Witness ==
    /\ Constructed
    /\ ret.op = "generate_pages"
    /\ error = ErrFileExists
    /\ Len(WrittenFiles(run_log)) >= 2
    /\ site_map_urls = AppendedUrls(run_log)
    /\ site_map_urls =
           [i \in 1..Len(WrittenFiles(run_log)) |->
               PublicUrlOfFile(WrittenFiles(run_log)[i])]


\* No element occurs twice in the sequence
NoDuplicates(s) == \A i, j \in 1..Len(s) : s[i] = s[j] => i = j

\* C20 as stated: in one call of generate_pages on a site built with
\* check_url_unique = True no HTML file is written twice and no URL is
\* appended to the sitemap list twice, also when an article and a dataset
\* carry the same tag or the alias of an entity is the blog URL.
C20_NoFileWrittenTwice ==
    (Constructed /\ check_url_unique /\ ret.op = "generate_pages") =>
        /\ NoDuplicates(WrittenFiles(run_log))
        /\ NoDuplicates(AppendedUrls(run_log))

-----------------------------------------------------------------------------
(* The scenario of eight articles (checked under SpecScenario)             *)

\* The number of entities on each page of a listing
SliceSizes(listing) ==
    [k \in 1..Len(listing.url_list) |->
        generate_entities(listing, k - 1,
                          pagination_max_item_per_page).entities_length]

\* C19 as stated: for eight articles without tags and with distinct
\* aliases, no page, no dataset, no blog URL and no catalogue URL, a call of
\* generate_pages on the fresh instance with three entities per page gives
\* a homepage listing of 3 pages with 3, 3 and 2 entities and a sitemap list
\* of exactly 11 URLs: the 3 URLs of the listing and the 8 URLs of the
\* articles, each once.
C19_EightArticles ==
    (PagesGenerated /\ site_map_urls = AppendedUrls(run_log)) =>
        /\ homepage.kind = "ListOfArticles"
        /\ Len(homepage.url_list) = 3
        /\ SliceSizes(homepage) = <<3, 3, 2>>
        /\ Len(site_map_urls) = 11
        /\ Range(site_map_urls) =
               {generate_file_path(homepage.url_list[k], FALSE) : k \in 1..3}
               \cup {EntityUrl(list_of_articles[i]) : i \in 1..8}
        /\ NoDuplicates(site_map_urls)


-----------------------------------------------------------------------------
(* The listings of the tags (checked under SpecTagPages)                   *)

\* The dates of the entities of the tag-listing specification
TagPageDates == {1, 2}

\* Sites of articles and datasets with distinct aliases, an older and a
\* newer date and any tags (at most MaxTagPageUses tag occurrences), one
\* entity per page of a listing; the output directory is empty
InitTagPages ==
    /\ pagination_max_item_per_page = 1
    /\ DefaultConfig
    /\ dir_exists = TRUE
    /\ files = NoFiles
    /\ check_url_unique = TRUE
    /\ \E n \in 0..MaxTagged :
         \E kinds \in [1..n -> {"Article", "Dataset"}],
            dates \in [1..n -> TagPageDates],
            uses \in SeqsUpTo(TagUniverse, MaxTagPageUses) :
           \E cuts \in [0..n -> 0..Len(uses)] :
             /\ cuts[0] = 0
             /\ cuts[n] = Len(uses)
             /\ \A i \in 1..n : cuts[i - 1] <= cuts[i]
             /\ list_of_entities =
                  [i \in 1..n |->
                      Entity(i, kinds[i], "e" \o ToString(i), dates[i],
                             SubSeq(uses, cuts[i - 1] + 1, cuts[i]),
                             NoPosition)]
    /\ InitInstance

SpecTagPages == InitTagPages /\ [][NextGen]_vars

\* The writes of HTML files of a log, in order
Writes(log) == SelectSeq(log, IsWrite)

\* The file of page k (from 1) of the listing of a tag
TagPageFile(tag, k) ==
    IF k = 1 THEN tag_url_prefix \o tag.url_alias \o ".html"
    ELSE tag_url_prefix \o tag.url_alias \o "-page-" \o ToString(k - 1)
         \o ".html"

\* The entities a written listing page shows, as the page names them
ShownOn(event) == SubSeq(event.content.data, 4, Len(event.content.data))

RECURSIVE Flatten(_)
Flatten(seqs) ==
    IF seqs = <<>> THEN <<>> ELSE Head(seqs) \o Flatten(Tail(seqs))

\* The writes from position pos on are the listing of the tag: one write
\* per URL of url_list, the first at tag_url_prefix + tag.url_alias, each
\* page of the listing list_type titled tag.name with its page position,
\* and the pages together show the entities in their order
IsTagListingAt(writes, pos, list_type, tag, entities) ==
    LET n == Len(TagListing(list_type, tag, <<[key |-> tag,
                                                val |-> entities]>>).url_list)
    IN  /\ pos + n - 1 <= Len(writes)
        /\ \A k \in 1..n :
             /\ writes[pos + k - 1].name = TagPageFile(tag, k)
             /\ writes[pos + k - 1].content.kind = "list"
             /\ SubSeq(writes[pos + k - 1].content.data, 1, 3) =
                    <<list_type, tag.name, ToString(k - 1)>>
             /\ Len(ShownOn(writes[pos + k - 1]))
                    <= pagination_max_item_per_page
        /\ Flatten([k \in 1..n |-> ShownOn(writes[pos + k - 1])]) =
               [j \in 1..Len(entities) |-> ToString(entities[j].id)]

\* The call wrote the listing of every tag of the index
TagListingsWritten(list_type, incidence, tag_to_entities) ==
    \A i \in 1..Len(incidence) :
        LET tag == incidence[i].key
            entities == Get(tag_to_entities, tag)
        IN  /\ entities # <<>>
            /\ DateDescending(entities)
            /\ \E pos \in 1..Len(Writes(run_log)) :
                   IsTagListingAt(Writes(run_log), pos, list_type, tag,
                                  entities)

\* C21: a call of generate_pages that ends without exception has written,
\* for every tag of the article index and every tag of the dataset index,
\* a paginated listing: one file per URL of the url_list of the listing,
\* the first at tag_url_prefix + tag.url_alias, and the pages together
\* show exactly the entities of tag_to_entities[tag], which are in
\* date-descending order.
C21_TagListings ==
    PagesGenerated =>
        /\ TagListingsWritten("ListOfArticles", tag_to_articles_incidence,
                              tag_to_articles)
        /\ TagListingsWritten("ListOfDatasets", tag_to_datasets_incidence,
                              tag_to_datasets)

\* A call wrote the two pages of the listing of a tag of two articles that
\* were given oldest first
C21_Witness ==
    /\ PagesGenerated
    /\ \E i \in 1..Len(tag_to_articles_incidence) :
         LET entities == Get(tag_to_articles,
                             tag_to_articles_incidence[i].key)
         IN  /\ Len(entities) = 2
             /\ entities[1].date > entities[2].date
             /\ entities[1].id > entities[2].id
             /\ TagPageFile(tag_to_articles_incidence[i].key, 2)
                    \in DOMAIN files


-----------------------------------------------------------------------------
(* Sites.json, Sites.object_from_json, Sites.sites_from_json                *)
(*                                                                         *)
(* A date n stands for the datetime n half seconds after                   *)
(* 2020-01-01T00:00:00, so that an odd date has microsecond = 500000.  The *)
(* title stands for the fields of an entity that are plain strings.        *)

MaxJsonEntities == 2

ErrUnsupported == "ValueError: Unsupported type of object"

ErrUnconverted == "ValueError: unconverted data remains"

\* datetime.isoformat(): the fraction is written when microsecond is not 0
isoformat(date) ==
    "2020-01-01T00:00:0" \o ToString(date \div 2)
    \o (IF date % 2 = 1 THEN ".500000" ELSE "")

\* datetime.strftime(date, "%Y-%m-%dT%H:%M:%S") of a date of whole seconds
strftime(date) == "2020-01-01T00:00:0" \o ToString(date \div 2)

\* The dates of whole seconds
ParsedDates == {d \in 0..MaxDate : d % 2 = 0}

\* datetime.datetime.strptime(date_string, "%Y-%m-%dT%H:%M:%S"): the
\* datetime whose rendering in that format is the string, ValueError when
\* there is none
strptime(date_string) ==
    IF \E d \in ParsedDates : strftime(d) = date_string
    THEN [error |-> None,
          value |-> CHOOSE d \in ParsedDates : strftime(d) = date_string]
    ELSE [error |-> ErrUnconverted]

\* dict(tag) of the JSON encoder
TagDict(tag) == [name |-> tag.name, url_alias |-> tag.url_alias]

\* Entity.json, parsed again: the fields of the entity with the name of
\* its class as object_type, the tags as objects, the date as ISO string
EntityJson(ent) ==
    IF ent.kind = "Page"
    THEN [object_type |-> "Page", title |-> ToString(ent.id),
          url_alias |-> ent.url_alias, menu_position |-> ent.menu_position]
    ELSE [object_type |-> ent.kind, title |-> ToString(ent.id),
          url_alias |-> ent.url_alias,
          date |-> isoformat(ent.date),
          tags |-> [i \in 1..Len(ent.tags) |-> TagDict(ent.tags[i])]]

\* Sites.json of the instance: the pages, then the articles, then the
\* datasets, each list in its sorted order
SitesJson ==
    [list_of_entities |->
        [i \in 1..Len(HomepageScan) |-> EntityJson(HomepageScan[i])]]

\* The identifier of the entity with that title
IdOfTitle(title) == CHOOSE id \in 1..MaxJsonEntities : ToString(id) = title

\* Article(**deserialized, tags=tags, date=date) and Dataset(...)
DatedFromJson(json_def, date) ==
    IF date.error # None THEN [error |-> date.error]
    ELSE [error |-> None,
          value |-> Entity(IdOfTitle(json_def.title), json_def.object_type,
                           json_def.url_alias, date.value,
                           [i \in 1..Len(json_def.tags) |->
                               Tag(json_def.tags[i].name,
                                   json_def.tags[i].url_alias)],
                           NoPosition)]

\* object_from_json for a dict
object_from_json(json_def) ==
    IF json_def.object_type = "Page"
    THEN [error |-> None,
          value |-> Entity(IdOfTitle(json_def.title), "Page",
                           json_def.url_alias, 0, <<>>,
                           json_def.menu_position)]
    ELSE IF json_def.object_type \in {"Article", "Dataset"}
    THEN DatedFromJson(json_def, strptime(json_def.date))
    ELSE \* case _: raise ValueError("Unsupported type of object")
         [error |-> ErrUnsupported]

\* for entity_def in list_of_entities: entities.append(...), up to the
\* first exception
RECURSIVE DecodeEntities(_, _)
DecodeEntities(entities, defs) ==
    IF defs = <<>> THEN [error |-> None, entities |-> entities]
    ELSE IF object_from_json(Head(defs)).error # None
    THEN [error |-> object_from_json(Head(defs)).error]
    ELSE DecodeEntities(Append(entities, object_from_json(Head(defs)).value),
                        Tail(defs))


\* The instance cls(list_of_entities=entities) makes, with the default
\* check_url_unique = True
NewSites(entities) ==
    LET articles == SortArticles(entities)
        datasets == SortDatasets(entities)
        pages    == SortPages(entities)
        pa == process_entity_list(articles)
        pd == process_entity_list(datasets)
        chk == UrlCheck(pa.all_urls, pd.all_urls, pages)
    IN  IF Cardinality(chk.all_urls) # chk.number_of_elements
        THEN [error |-> ErrNotUnique]
        ELSE [error |-> None,
              list_of_articles |-> articles,
              list_of_datasets |-> datasets,
              list_of_pages |-> pages,
              tag_to_articles |-> pa.tag_to_entity,
              tag_to_articles_incidence |-> pa.tag_to_entity_incidence,
              tag_to_datasets |-> pd.tag_to_entity,
              tag_to_datasets_incidence |-> pd.tag_to_entity_incidence]

\* Sites.sites_from_json for a dict: the decoded entities, then the
\* constructor
sites_from_json(json_obj) ==
    IF DecodeEntities(<<>>, json_obj.list_of_entities).error # None
    THEN [error |-> DecodeEntities(<<>>, json_obj.list_of_entities).error]
    ELSE [error |-> None,
          entities |-> DecodeEntities(<<>>,
                                      json_obj.list_of_entities).entities,
          sites |-> NewSites(DecodeEntities(
                                 <<>>, json_obj.list_of_entities).entities)]

\* Values of object_type that name no class of entities
OtherTypes == {"Tag", "ListOfArticles"}

\* The documents given to sites_from_json: the JSON of the instance, as it
\* is or with the object_type of one entity changed
Documents ==
    {SitesJson}
    \cup {[list_of_entities |->
              [SitesJson.list_of_entities EXCEPT ![i].object_type = t]] :
          i \in 1..Len(SitesJson.list_of_entities), t \in OtherTypes}

\* s.json
ReadJson ==
    /\ phase = "constructed"
    /\ ret' = [op |-> "json", value |-> SitesJson]
    /\ error' = None
    /\ UNCHANGED <<configVars, outputVars, list_of_entities,
                   check_url_unique, phase, list_of_articles,
                   list_of_datasets, list_of_pages, tag_to_articles,
                   tag_to_articles_incidence, tag_to_datasets,
                   tag_to_datasets_incidence, site_map_urls, homepage,
                   homepage_cache, el>>

\* Sites.sites_from_json(json_obj): the instance it returns takes the place
\* of the instance the document came from; an exception returns none
SitesFromJson ==
    /\ phase = "constructed"
    /\ \E json_obj \in Documents :
         LET made == sites_from_json(json_obj)
         IN  /\ ret' = [op |-> "sites_from_json", json_obj |-> json_obj]
             /\ IF made.error # None
                THEN /\ error' = made.error
                     /\ UNCHANGED <<list_of_entities, check_url_unique,
                                    phase, list_of_articles,
                                    list_of_datasets, list_of_pages,
                                    tag_to_articles,
                                    tag_to_articles_incidence,
                                    tag_to_datasets,
                                    tag_to_datasets_incidence, site_map_urls,
                                    homepage, homepage_cache>>
                ELSE IF made.sites.error # None
                THEN /\ error' = made.sites.error
                     /\ UNCHANGED <<list_of_entities, check_url_unique,
                                    phase, list_of_articles,
                                    list_of_datasets, list_of_pages,
                                    tag_to_articles,
                                    tag_to_articles_incidence,
                                    tag_to_datasets,
                                    tag_to_datasets_incidence, site_map_urls,
                                    homepage, homepage_cache>>
                ELSE /\ error' = None
                     /\ list_of_entities' = made.entities
                     /\ check_url_unique' = TRUE
                     /\ phase' = "constructed"
                     /\ list_of_articles' = made.sites.list_of_articles
                     /\ list_of_datasets' = made.sites.list_of_datasets
                     /\ list_of_pages' = made.sites.list_of_pages
                     /\ tag_to_articles' = made.sites.tag_to_articles
                     /\ tag_to_articles_incidence' =
                            made.sites.tag_to_articles_incidence
                     /\ tag_to_datasets' = made.sites.tag_to_datasets
                     /\ tag_to_datasets_incidence' =
                            made.sites.tag_to_datasets_incidence
                     /\ site_map_urls' = <<>>
                     /\ homepage' = NoEntity
                     /\ homepage_cache' = NoEntity
    /\ UNCHANGED <<configVars, outputVars, el>>

JsonPositions == {NoPosition, <<0>>, <<1>>}

\* Sites of pages with and without menu position and of articles and
\* datasets with any dates (of whole seconds or not) and with or without
\* the tag GenTag; the aliases are distinct and at most one is None
InitJson ==
    /\ pagination_max_item_per_page = DefaultPageSize
    /\ DefaultConfig
    /\ NoOutput
    /\ check_url_unique \in BOOLEAN
    /\ \E n \in 0..MaxJsonEntities :
         \E kinds \in [1..n -> Kinds], dates \in [1..n -> 0..MaxDate],
            tagged \in [1..n -> BOOLEAN],
            positions \in [1..n -> JsonPositions], home \in 0..n :
             /\ \A i \in 1..n :
                  /\ kinds[i] = "Page" => (~tagged[i] /\ dates[i] = 0)
                  /\ kinds[i] # "Page" => positions[i] = NoPosition
             /\ list_of_entities =
                  [i \in 1..n |->
                      Entity(i, kinds[i],
                             IF i = home THEN None ELSE "e" \o ToString(i),
                             dates[i],
                             IF tagged[i] THEN <<GenTag>> ELSE <<>>,
                             positions[i])]
    /\ InitInstance

NextJson == Construct \/ ReadJson \/ SitesFromJson

SpecJson == InitJson /\ [][NextJson]_vars


-----------------------------------------------------------------------------
(* Properties of the JSON round trip (checked under SpecJson)              *)

\* A step that gives the JSON of the instance to sites_from_json
RoundTrip ==
    /\ Constructed
    /\ ret'.op = "sites_from_json"
    /\ ret'.json_obj = SitesJson

\* C22 as stated: for every Sites built from entities with unique aliases
\* and at most one homepage, sites_from_json(s.json) returns a Sites whose
\* json is s.json; the pages, articles and datasets of the new instance
\* have the fields of the old ones (tags, dates, menu positions), and a
\* second round trip keeps the order pages, articles, datasets, each list in
\* its sorted order.
C22_RoundTrip ==
    [][RoundTrip =>
          /\ error' = None
          /\ SitesJson' = SitesJson
          /\ list_of_pages' = list_of_pages
          /\ list_of_articles' = list_of_articles
          /\ list_of_datasets' = list_of_datasets
          /\ sites_from_json(SitesJson').error = None
          /\ sites_from_json(SitesJson').entities = list_of_entities']_vars


\* A step that gives a document to sites_from_json
Deserialization ==
    /\ Constructed
    /\ ret'.op = "sites_from_json"

\* The instance is the one it was: no Sites was returned
NoSitesReturned ==
    UNCHANGED <<list_of_entities, check_url_unique, phase, list_of_articles,
                list_of_datasets, list_of_pages, tag_to_articles,
                tag_to_articles_incidence, tag_to_datasets,
                tag_to_datasets_incidence, homepage, homepage_cache>>

\* C23 as stated: an entity of the document with object_type 'Page',
\* 'Article' or 'Dataset' yields an entity of that kind, and a document in
\* which some entity has another object_type makes sites_from_json fail
\* with the error of the unsupported type, without returning a Sites.
C23_Dispatch ==
    [][Deserialization =>
          LET defs == ret'.json_obj.list_of_entities
          IN  /\ \A i \in 1..Len(defs) :
                   defs[i].object_type \in Kinds =>
                       /\ object_from_json(defs[i]).error = None
                       /\ object_from_json(defs[i]).value.kind =
                              defs[i].object_type
              /\ (\E i \in 1..Len(defs) : defs[i].object_type \notin Kinds)
                     => /\ error' = ErrUnsupported
                        /\ NoSitesReturned]_vars


-----------------------------------------------------------------------------
(* Sites.list_of_pages_in_menu and the order of the pages (SpecMenu)       *)

MaxMenuPages == 3

\* The menu positions given to pages: none, a negative one, 0, positive ones
MenuPositions == {NoPosition, <<-2>>, <<0>>, <<1>>, <<2>>}

\* First index i (from 1) with pages[i].menu_position is not None, 0 when
\* there is none
FirstInMenu(pages) ==
    IF \A i \in 1..Len(pages) : pages[i].menu_position = NoPosition THEN 0
    ELSE CHOOSE i \in 1..Len(pages) :
             /\ pages[i].menu_position # NoPosition
             /\ \A j \in 1..(i - 1) : pages[j].menu_position = NoPosition

\* Sites.list_of_pages_in_menu: self._list_of_pages[i:] for the first page
\* with a menu position, [] when no page has one.  (lru_cache keeps the
\* value of the first read; _list_of_pages is never assigned again, so
\* every read gives this value.)
list_of_pages_in_menu ==
    IF FirstInMenu(list_of_pages) = 0 THEN <<>>
    ELSE SubSeq(list_of_pages, FirstInMenu(list_of_pages),
                Len(list_of_pages))

\* A read of Sites.list_of_pages_in_menu
ReadPagesInMenu ==
    /\ phase = "constructed"
    /\ ret' = [op |-> "list_of_pages_in_menu",
               value |-> list_of_pages_in_menu]
    /\ error' = None
    /\ UNCHANGED <<configVars, outputVars, list_of_entities,
                   check_url_unique, phase, list_of_articles,
                   list_of_datasets, list_of_pages, tag_to_articles,
                   tag_to_articles_incidence, tag_to_datasets,
                   tag_to_datasets_incidence, site_map_urls, homepage,
                   homepage_cache, el>>

\* Sites of pages with distinct aliases and any menu positions, in any
\* order
InitMenu ==
    /\ pagination_max_item_per_page = DefaultPageSize
    /\ DefaultConfig
    /\ NoOutput
    /\ check_url_unique \in BOOLEAN
    /\ \E n \in 0..MaxMenuPages :
         \E positions \in [1..n -> MenuPositions] :
             list_of_entities =
                 [i \in 1..n |->
                     Entity(i, "Page", "e" \o ToString(i), 0, <<>>,
                            positions[i])]
    /\ InitInstance

NextMenu == Construct \/ ReadPagesInMenu

SpecMenu == InitMenu /\ [][NextMenu]_vars

\* The menu was read
MenuWasRead == Constructed /\ ret.op = "list_of_pages_in_menu"

\* C24 as stated: for every set of pages in every input order,
\* list_of_pages_in_menu contains no page whose menu_position is None and
\* contains every page whose menu_position is not None (0 and negative
\* positions included).
C24_MenuPages ==
    MenuWasRead =>
        /\ \A i \in 1..Len(ret.value) :
               ret.value[i].menu_position # NoPosition
        /\ \A i \in 1..Len(list_of_entities) :
               list_of_entities[i].menu_position # NoPosition
                   => list_of_entities[i] \in Range(ret.value)

\* The key of the claim: menu_position, None taken as -1
PositionKey(page) ==
    IF page.menu_position = NoPosition THEN -1 ELSE page.menu_position[1]

\* C25 as stated: after construction list_of_pages is in non-decreasing
\* order of menu_position with None taken as -1, so that every page
\* without menu position precedes every page with menu_position >= 0
\* (0 included), for every input order.
C25_PageOrder ==
    Constructed =>
        /\ \A i, j \in 1..Len(list_of_pages) :
               i < j => PositionKey(list_of_pages[i])
                            <= PositionKey(list_of_pages[j])
        /\ \A i, j \in 1..Len(list_of_pages) :
               (/\ list_of_pages[i].menu_position = NoPosition
                /\ list_of_pages[j].menu_position # NoPosition
                /\ list_of_pages[j].menu_position[1] >= 0) => i < j


-----------------------------------------------------------------------------
(* The order of articles and datasets (checked under SpecTags)             *)

\* sorted_list is input_list in another order: the entity at each position
\* of the input is at exactly one position of the result
IsPermutation(sorted_list, input_list) ==
    /\ Len(sorted_list) = Len(input_list)
    /\ \A i \in 1..Len(input_list) :
           Cardinality({j \in 1..Len(sorted_list) :
                           sorted_list[j] = input_list[i]}) = 1

\* Newest first, entities of equal date in the order of the input (the id
\* of an entity is its position in the input list)
NewestFirstStable(sorted_list) ==
    \A i, j \in 1..Len(sorted_list) :
        i < j =>
            /\ sorted_list[i].date >= sorted_list[j].date
            /\ sorted_list[i].date = sorted_list[j].date
                   => sorted_list[i].id < sorted_list[j].id

\* C26: after construction list_of_articles and list_of_datasets are the
\* articles and the datasets of the input, each in non-increasing order of
\* date (newest first), entities of equal date in input order.
C26_DateOrder ==
    Constructed =>
        /\ IsPermutation(list_of_articles,
                         SelectSeq(list_of_entities, IsArticle))
        /\ IsPermutation(list_of_datasets,
                         SelectSeq(list_of_entities, IsDataset))
        /\ NewestFirstStable(list_of_articles)
        /\ NewestFirstStable(list_of_datasets)

\* Two articles of equal date, kept in the order of the input
C26_Witness ==
    /\ Constructed
    /\ Len(list_of_articles) >= 2
    /\ \E i \in 1..(Len(list_of_articles) - 1) :
           /\ list_of_articles[i].date = list_of_articles[i + 1].date
           /\ list_of_articles[i].id < list_of_articles[i + 1].id


-----------------------------------------------------------------------------
(* EntityList.generate_page (checked under SpecList)                       *)

\* C27: generate_page for a URL that is not an element of url_list raises
\* the ValueError of the lookup and renders nothing; for a URL of url_list
\* it renders the page at the index of that URL: the navigation bar and the
\* entities of that page position.
C27_PageLookup ==
    (el # NoListing /\ ret.op = "generate_page") =>
        IF \E k \in 1..Len(el.url_list) : el.url_list[k] = ret.url
        THEN /\ ret.error = None
             /\ ret.page_position \in 0..(Len(el.url_list) - 1)
             /\ el.url_list[ret.page_position + 1] = ret.url
             /\ \A k \in 1..ret.page_position : el.url_list[k] # ret.url
             /\ ret.html_str[1].page_position = ret.page_position
             /\ ret.html_str[2].page_position = ret.page_position
        ELSE /\ ret.error = ErrNotInList
             /\ ret.html_str = None

\* A URL that is the start of a URL of the listing, but none of its URLs,
\* was refused
C27_Witness ==
    /\ el # NoListing
    /\ Len(el.url_list) >= 2
    /\ ret.op = "generate_page"
    /\ ret.url = "blog" \o pagination_prefix \o pagination_suffix
    /\ ret.error = ErrNotInList


-----------------------------------------------------------------------------
(* The home file (checked under SpecHome)                                  *)

\* How often x occurs in the sequence
Occurrences(s, x) == Cardinality({i \in 1..Len(s) : s[i] = x})

\* C28 as stated: a call of generate_pages on a fresh instance that ends
\* without exception has written the home file (site_home_file_name)
\* exactly once and has put the home URL into the sitemap list exactly
\* once, whether the homepage is a Page, an Article or a Dataset without
\* alias, the listing made by default, or a listing assigned to
\* Sites.homepage (also when an entity without alias exists).
C28_HomeFileOnce ==
    [][(FreshCall /\ error' = None) =>
          /\ Occurrences(WrittenFiles(run_log'), site_home_file_name) = 1
          /\ Occurrences(site_map_urls', site_home_url) = 1]_vars


-----------------------------------------------------------------------------
(* The output directory (checked under SpecGen)                            *)

\* A step that is a call of generate_pages with rewrite_if_exists = False
\* into a directory that does not exist, with no directory of resources
\* configured
CallIntoMissingDirectory ==
    /\ CallWithoutRewrite
    /\ ~dir_exists
    /\ resources_path = None

\* C29 as stated: generate_pages makes the output directory when it does
\* not exist, for both values of rewrite_if_exists: a call with
\* rewrite_if_exists = False into a missing directory, with no directory of
\* resources configured, does not fail on its first write but writes all
\* its pages (every page when no two pages of the call share a file).
C29_DirectoryIsCreated ==
    [][CallIntoMissingDirectory =>
          /\ dir_exists'
          /\ error' # ErrNoDirectory
          /\ NoDuplicates(PlannedFiles) =>
                 /\ error' = None
                 /\ WrittenFiles(run_log') = PlannedFiles]_vars


-----------------------------------------------------------------------------
(* The Sites class of src/sites.py, built from a list of articles and a    *)
(* list of pages (SpecTwoList).  list_of_entities holds the two lists,     *)
(* each in the order given.                                                *)

MaxTwoListEntities == 3

MaxRecentPosts == 2

\* Sites.__init__(list_of_articles, list_of_pages) of src/sites.py
ConstructTwoList ==
    /\ phase = "new"
    /\ LET list_of_articles_arg == SelectSeq(list_of_entities, IsArticle)
           list_of_pages_arg == SelectSeq(list_of_entities, IsPage)
           acc == ScanEntities([tag_to_entity |-> <<>>,
                                tag_to_entity_incidence |-> <<>>],
                               list_of_articles_arg)
           all_urls == {list_of_entities[i].url_alias :
                           i \in 1..Len(list_of_entities)}
       IN  IF check_url_unique
              /\ Cardinality(all_urls) # Len(list_of_entities)
           THEN \* raise ValueError("Not all URLs are unique!")
                /\ phase' = "failed"
                /\ error' = ErrNotUnique
                /\ UNCHANGED <<list_of_articles, list_of_pages,
                               tag_to_articles, tag_to_articles_incidence>>
           ELSE /\ phase' = "constructed"
                /\ list_of_articles' =
                       sorted(list_of_articles_arg,
                              DateKey(list_of_articles_arg), FALSE)
                /\ tag_to_articles' = acc.tag_to_entity
                /\ tag_to_articles_incidence' =
                       SortIncidence(acc.tag_to_entity_incidence)
                /\ list_of_pages' = SortPages(list_of_entities)
                /\ error' = None
    /\ UNCHANGED <<configVars, outputVars, list_of_entities,
                   check_url_unique, list_of_datasets, tag_to_datasets,
                   tag_to_datasets_incidence, site_map_urls, homepage,
                   homepage_cache, el, ret>>

\* Sites.generate_recent_posts of src/sites.py: the articles given to the
\* template, for a value of Config.maximal_recent_posts
GenerateRecentPosts ==
    /\ phase = "constructed"
    /\ \E maximal_recent_posts \in 1..MaxRecentPosts :
           ret' = [op |-> "generate_recent_posts",
                   maximal_recent_posts |-> maximal_recent_posts,
                   recent_posts |->
                       SubSeq(list_of_articles, 1,
                              Min(Len(list_of_articles),
                                  maximal_recent_posts))]
    /\ UNCHANGED <<configVars, outputVars, sitesVars, el>>

\* Articles with any dates and pages, with distinct aliases, in any order
InitTwoList ==
    /\ pagination_max_item_per_page = DefaultPageSize
    /\ DefaultConfig
    /\ NoOutput
    /\ check_url_unique \in BOOLEAN
    /\ \E n \in 0..MaxTwoListEntities :
         \E kinds \in [1..n -> {"Article", "Page"}],
            dates \in [1..n -> 1..MaxDate], tagged \in [1..n -> BOOLEAN] :
             /\ \A i \in 1..n :
                    kinds[i] = "Page" => (dates[i] = 1 /\ ~tagged[i])
             /\ list_of_entities =
                  [i \in 1..n |->
                      Entity(i, kinds[i], "e" \o ToString(i),
                             IF kinds[i] = "Page" THEN 0 ELSE dates[i],
                             IF tagged[i] THEN <<GenTag>> ELSE <<>>,
                             NoPosition)]
    /\ InitInstance

NextTwoList == ConstructTwoList \/ GenerateRecentPosts

SpecTwoList == InitTwoList /\ [][NextTwoList]_vars

\* C30 as stated: in the Sites class of src/sites.py list_of_articles is
\* in the order of the date of publishing from newest to oldest, and the
\* recent posts are therefore the newest maximal_recent_posts articles: no
\* article left out is newer than an article shown.
C30_TwoListNewestFirst ==
    Constructed =>
        /\ DateDescending(list_of_articles)
        /\ ret.op = "generate_recent_posts" =>
               \A i \in 1..Len(ret.recent_posts) :
                   \A j \in 1..Len(list_of_articles) :
                       list_of_articles[j] \notin Range(ret.recent_posts)
                           => list_of_articles[j].date
                                  <= ret.recent_posts[i].date

====
